---- MODULE Spec2Model ----
(***************************************************************************)
(* A model of src/fc_statistic.py: overlap_union (lines 22-25) and         *)
(* get_accuracy (lines 27-65).                                             *)
(*                                                                         *)
(* The file is Python 2 (generator.next() at lines 285 and 297, the        *)
(* apollocaffe binding), so "/" between two ints is floor division and     *)
(* "/" with a float operand is true division.  A Python int is a TLA+      *)
(* integer.  A Python float is an IEEE 754 double: every operation is      *)
(* rounded to nearest (ties to even), underflows gradually to 0.0 and      *)
(* overflows to inf; inf - inf and inf * 0 are nan.  TLC's integers have   *)
(* 32 bits, so the 53-bit significands are kept as sequences of limbs.     *)
(***************************************************************************)
EXTENDS Integers, Sequences, FiniteSets, TLC

VARIABLES
    pc,          \* position of the running call
    exc,         \* the exception that ended the call, NoExc if none
    ou_args,     \* overlap_union: <<x1,y1,x2,y2,x3,y3,x4,y4>>, floats
    ou_ret,      \* overlap_union: the returned float
    net_config,  \* get_accuracy: img_width, img_height, grid_width, grid_height
    bbox_list,   \* get_accuracy: bbox_list[n][k] = <<dx, dy, w, h>> (line 28)
    conf_list,   \* get_accuracy: conf_list[n][k] = <<p0, p1>> (line 28)
    pix_per_w,   \* line 33
    pix_per_h,   \* line 34
    all_rects,   \* line 36: all_rects[y][x], a sequence of Rect
    n,           \* line 37 loop index (0-based, as in the source)
    k,           \* line 38 loop index (0-based, as in the source)
    anno,        \* inputs['anno']: sequence of ground-truth rectangles
    acc_rects,   \* line 49: what stitch_rects returned
    count,       \* line 30
    count_cover, \* line 50
    ri,          \* number of acc_rects the loop of line 51 has consumed
    hits,        \* hits[i]: index in anno where the scan of acc_rects[i] broke, 0 if it did not
    ret          \* line 65: the returned pair

vars == <<pc, exc, ou_args, ou_ret, net_config, bbox_list, conf_list, pix_per_w,
          pix_per_h, all_rects, n, k, anno, acc_rects, count, count_cover,
          ri, hits, ret>>

(***************************************************************************)
(* Bounds of the model.                                                    *)
(***************************************************************************)
MaxCoord == 3   \* overlap_union corners are 0..MaxCoord times a scale
MaxGrid == 2    \* grid_width, grid_height range over 1..MaxGrid
MaxImg == 4     \* img_width, img_height range over 1..MaxImg
MaxLen == 2     \* len(bbox_list) ranges over 1..MaxLen
MaxAnno == 2    \* len(anno) ranges over 0..MaxAnno
MaxRects == 2   \* len(acc_rects) ranges over 0..MaxRects

(***************************************************************************)
(* Natural numbers of any size: little-endian sequences of limbs in base   *)
(* 2^15, without leading zero limbs.                                       *)
(***************************************************************************)
LimbBits == 15
Base == 32768

RECURSIVE NTrim(_)
NTrim(a) ==
    IF a = <<>> THEN a
    ELSE IF a[Len(a)] = 0 THEN NTrim(SubSeq(a, 1, Len(a) - 1)) ELSE a

RECURSIVE NFromInt(_)
NFromInt(i) == IF i = 0 THEN <<>> ELSE <<i % Base>> \o NFromInt(i \div Base)

RECURSIVE NToIntFrom(_, _)
NToIntFrom(a, i) == IF i > Len(a) THEN 0 ELSE a[i] + Base * NToIntFrom(a, i + 1)
NToInt(a) == NToIntFrom(a, 1)

Limb(a, i) == IF i <= Len(a) THEN a[i] ELSE 0
Zeros(q) == [i \in 1 .. q |-> 0]

RECURSIVE NAddFrom(_, _, _, _)
NAddFrom(a, b, i, c) ==
    IF i > Len(a) /\ i > Len(b)
    THEN IF c = 0 THEN <<>> ELSE <<c>>
    ELSE LET t == Limb(a, i) + Limb(b, i) + c
         IN  <<t % Base>> \o NAddFrom(a, b, i + 1, t \div Base)
NAdd(a, b) == NTrim(NAddFrom(a, b, 1, 0))

RECURSIVE NSubFrom(_, _, _, _)
NSubFrom(a, b, i, br) ==
    IF i > Len(a) THEN <<>>
    ELSE LET t == a[i] - Limb(b, i) - br
         IN  <<IF t < 0 THEN t + Base ELSE t>>
                 \o NSubFrom(a, b, i + 1, IF t < 0 THEN 1 ELSE 0)
\* a - b, for a >= b
NSub(a, b) == NTrim(NSubFrom(a, b, 1, 0))

RECURSIVE NCmpFrom(_, _, _)
NCmpFrom(a, b, i) ==
    IF i = 0 THEN 0
    ELSE IF a[i] < b[i] THEN -1
    ELSE IF a[i] > b[i] THEN 1
    ELSE NCmpFrom(a, b, i - 1)
\* -1, 0, 1 as a < b, a = b, a > b
NCmp(a, b) ==
    IF Len(a) < Len(b) THEN -1
    ELSE IF Len(a) > Len(b) THEN 1
    ELSE NCmpFrom(a, b, Len(a))

RECURSIVE NMulSmallFrom(_, _, _, _)
NMulSmallFrom(a, d, i, c) ==
    IF i > Len(a)
    THEN IF c = 0 THEN <<>> ELSE <<c>>
    ELSE LET t == a[i] * d + c
         IN  <<t % Base>> \o NMulSmallFrom(a, d, i + 1, t \div Base)
\* a * d, for a limb d
NMulSmall(a, d) == IF d = 0 THEN <<>> ELSE NMulSmallFrom(a, d, 1, 0)

RECURSIVE NMulFrom(_, _, _)
NMulFrom(a, b, j) ==
    IF j > Len(b) THEN <<>>
    ELSE NAdd(Zeros(j - 1) \o NMulSmall(a, b[j]), NMulFrom(a, b, j + 1))
NMul(a, b) == NTrim(NMulFrom(a, b, 1))

\* a * 2^nb
NShl(a, nb) ==
    IF a = <<>> THEN <<>>
    ELSE Zeros(nb \div LimbBits) \o NMulSmall(a, 2 ^ (nb % LimbBits))

\* low is <<quotient, remainder>> of the limbs below a[i], d the limb for a[i]
PutDigit(low, d) == <<low[1] \o <<d>>, low[2]>>

RECURSIVE NDivSmallFrom(_, _, _, _)
NDivSmallFrom(a, d, i, r) ==
    IF i = 0 THEN <<<<>>, r>>
    ELSE PutDigit(NDivSmallFrom(a, d, i - 1, (r * Base + a[i]) % d),
                  (r * Base + a[i]) \div d)
\* <<a div d, a mod d>>, for a limb d > 0; the remainder is an integer
TrimQuot(res) == <<NTrim(res[1]), res[2]>>
NDivSmall(a, d) == TrimQuot(NDivSmallFrom(a, d, Len(a), 0))

\* a div 2^nb
NShr(a, nb) ==
    IF nb \div LimbBits >= Len(a) THEN <<>>
    ELSE NDivSmall(SubSeq(a, nb \div LimbBits + 1, Len(a)), 2 ^ (nb % LimbBits))[1]

RECURSIVE SmallBitLen(_)
SmallBitLen(x) == IF x = 0 THEN 0 ELSE 1 + SmallBitLen(x \div 2)
NBitLen(a) ==
    IF a = <<>> THEN 0 ELSE LimbBits * (Len(a) - 1) + SmallBitLen(a[Len(a)])

\* bit i of a, bit 0 the lowest
NBit(a, i) == (Limb(a, i \div LimbBits + 1) \div (2 ^ (i % LimbBits))) % 2

\* the nb lowest bits of a are all 0
NLowZero(a, nb) ==
    /\ \A j \in 1 .. nb \div LimbBits : Limb(a, j) = 0
    /\ Limb(a, nb \div LimbBits + 1) % (2 ^ (nb % LimbBits)) = 0

NIsOdd(a) == a # <<>> /\ a[1] % 2 = 1

RECURSIVE SmallTz(_)
SmallTz(x) == IF x % 2 = 1 THEN 0 ELSE 1 + SmallTz(x \div 2)
RECURSIVE NTzFrom(_, _)
NTzFrom(a, i) == IF a[i] = 0 THEN LimbBits + NTzFrom(a, i + 1) ELSE SmallTz(a[i])
\* the number of trailing zero bits of a # 0
NTz(a) == NTzFrom(a, 1)

NDouble(a) == NMulSmall(a, 2)
\* a + bit, for an even a
NSetLow(a, bit) ==
    IF bit = 0 THEN a ELSE IF a = <<>> THEN <<1>> ELSE [a EXCEPT ![1] = @ + 1]

RECURSIVE NDigit(_, _, _, _)
\* the largest d in lo .. hi with b * d <= r, given b * lo <= r
NDigit(r, b, lo, hi) ==
    IF lo = hi THEN lo
    ELSE LET mid == (lo + hi + 1) \div 2
         IN  IF NCmp(NMulSmall(b, mid), r) <= 0
             THEN NDigit(r, b, mid, hi)
             ELSE NDigit(r, b, lo, mid - 1)

RECURSIVE NDivLimbs(_, _, _, _)
NDivDigit(a, b, i, r2, d) == PutDigit(NDivLimbs(a, b, i - 1, NSub(r2, NMulSmall(b, d))), d)
NDivStep(a, b, i, r2) == NDivDigit(a, b, i, r2, NDigit(r2, b, 0, Base - 1))
\* <<quotient, remainder>> of the limbs a[i], a[i-1], .. of a after the remainder r
\* of the limbs above
NDivLimbs(a, b, i, r) ==
    IF i = 0 THEN <<<<>>, r>>
    ELSE NDivStep(a, b, i, NTrim(<<a[i]>> \o r))

\* <<a div b, a mod b # 0>>, for b # 0
Inexact(qr, zero) == <<NTrim(qr[1]), qr[2] # zero>>
NDivInexact(a, b) ==
    IF Len(b) = 1
    THEN Inexact(NDivSmall(a, b[1]), 0)
    ELSE Inexact(NDivLimbs(a, b, Len(a), <<>>), <<>>)


(***************************************************************************)
(* Python floats: IEEE 754 binary64, round to nearest, ties to even.       *)
(* A finite float is s * m * 2^e with s the sign, m an odd natural of at   *)
(* most Precision bits (<<>> for zero) and e >= MinExp.                    *)
(***************************************************************************)
Precision == 53
MinExp == -1074
MaxExp == 1024

Num(s, m, e) == [kind |-> "num", s |-> s, m |-> m, e |-> e]
Inf(s) == [kind |-> "inf", s |-> s, m |-> <<>>, e |-> 0]
NaN == [kind |-> "nan", s |-> 1, m |-> <<>>, e |-> 0]
Zero(s) == Num(s, <<>>, 0)
IsZero(x) == x.kind = "num" /\ x.m = <<>>

\* s * M * 2^(E + z) for M with z trailing zero bits
FPackOdd(s, M, E, z) == Num(s, NShr(M, z), E + z)

\* s * M * 2^E, exactly representable unless too large
FPack(s, M, E) ==
    IF M = <<>> THEN Zero(s)
    ELSE IF NBitLen(M) + E > MaxExp THEN Inf(s)
    ELSE FPackOdd(s, M, E, NTz(M))

\* the exponent of the last place of a double whose value has L bits above 2^E
LastPlace(L, E) == IF E + L - Precision > MinExp THEN E + L - Precision ELSE MinExp

\* t, the bits above the last place, rounded half to even: half is the first
\* bit dropped, exact says that the bits below it are all 0
RoundHalfEven(t, half, exact) ==
    IF half = 1 /\ (~exact \/ NIsOdd(t)) THEN NAdd(t, <<1>>) ELSE t

\* M div 2^sh, rounded to nearest, for sh > 0
RoundShift(M, sh) == RoundHalfEven(NShr(M, sh), NBit(M, sh - 1), NLowZero(M, sh - 1))

\* the float nearest to s * M * 2^E, whose last place is 2^q
FRoundTo(s, M, E, q) ==
    FPack(s, IF q <= E THEN M ELSE RoundShift(M, q - E), IF q <= E THEN E ELSE q)

\* the float nearest to s * M * 2^E
FRound(s, M, E) == FRoundTo(s, M, E, LastPlace(NBitLen(M), E))

\* the quotient qr[1] with a last bit that says whether the division left a
\* remainder, so that rounding sees an inexact quotient
Sticky(qr) == NSetLow(NDouble(qr[1]), IF qr[2] THEN 1 ELSE 0)

\* the number of bits A is shifted by before it is divided by B, so that the
\* quotient has at least Precision + 2 bits
QuotScale(A, B) ==
    IF NBitLen(B) + Precision + 2 - NBitLen(A) > 0
    THEN NBitLen(B) + Precision + 2 - NBitLen(A) ELSE 0

FQuotScaled(s, A, B, E, sc) == FRound(s, Sticky(NDivInexact(NShl(A, sc), B)), E - sc - 1)

\* the float nearest to s * A * 2^E / B, for A # 0 and B # 0
FQuot(s, A, B, E) == FQuotScaled(s, A, B, E, QuotScale(A, B))

SignOf(i) == IF i < 0 THEN -1 ELSE 1
AbsInt(i) == IF i < 0 THEN -i ELSE i

\* float(i) of a Python int
FromInt(i) == FRound(SignOf(i), NFromInt(AbsInt(i)), 0)

FNeg(x) == IF x.kind = "nan" THEN x ELSE [x EXCEPT !.s = -x.s]

\* the exponent just above the highest bit of a finite non-zero x
Top(x) == NBitLen(x.m) + x.e

\* xs * A * 2^E + ys * B * 2^E rounded, c the comparison of A with B; equal
\* magnitudes of opposite signs give +0.0
FAddSigned(xs, A, ys, B, E, c) ==
    IF xs # ys /\ c = 0 THEN Zero(1)
    ELSE FRound(IF xs = ys \/ c > 0 THEN xs ELSE ys,
                IF xs = ys THEN NAdd(A, B)
                ELSE IF c > 0 THEN NSub(A, B) ELSE NSub(B, A),
                E)

FAddAligned(xs, A, ys, B, E) == FAddSigned(xs, A, ys, B, E, NCmp(A, B))

\* x + y of finite non-zero floats, E the smaller of their exponents
FAddNum(x, y, E) == FAddAligned(x.s, NShl(x.m, x.e - E), y.s, NShl(y.m, y.e - E), E)

\* An operand below a quarter of the other's last place leaves it unchanged.
FAdd(x, y) ==
    IF x.kind = "nan" \/ y.kind = "nan" THEN NaN
    ELSE IF x.kind = "inf"
         THEN IF y.kind = "inf" /\ y.s # x.s THEN NaN ELSE x
    ELSE IF y.kind = "inf" THEN y
    ELSE IF x.m = <<>> /\ y.m = <<>> THEN Zero(IF x.s = -1 /\ y.s = -1 THEN -1 ELSE 1)
    ELSE IF x.m = <<>> THEN y
    ELSE IF y.m = <<>> THEN x
    ELSE IF Top(x) - Top(y) > Precision + 2 THEN x
    ELSE IF Top(y) - Top(x) > Precision + 2 THEN y
    ELSE FAddNum(x, y, IF x.e < y.e THEN x.e ELSE y.e)

FSub(x, y) == FAdd(x, FNeg(y))

FMul(x, y) ==
    IF x.kind = "nan" \/ y.kind = "nan" THEN NaN
    ELSE IF x.kind = "inf" \/ y.kind = "inf"
         THEN IF IsZero(x) \/ IsZero(y) THEN NaN ELSE Inf(x.s * y.s)
    ELSE IF x.m = <<>> \/ y.m = <<>> THEN Zero(x.s * y.s)
    ELSE FRound(x.s * y.s, NMul(x.m, y.m), x.e + y.e)

\* x / y for y # 0.0 (a zero divisor raises ZeroDivisionError)
FDiv(x, y) ==
    IF x.kind = "nan" \/ y.kind = "nan" THEN NaN
    ELSE IF x.kind = "inf"
         THEN IF y.kind = "inf" THEN NaN ELSE Inf(x.s * y.s)
    ELSE IF y.kind = "inf" \/ x.m = <<>> THEN Zero(x.s * y.s)
    ELSE FQuot(x.s * y.s, x.m, y.m, x.e - y.e)

\* x.m * 2^x.e < y.m * 2^y.e, E the smaller of the exponents
MagLessAt(x, y, E) == NCmp(NShl(x.m, x.e - E), NShl(y.m, y.e - E)) < 0

\* |x| < |y| for finite non-zero x, y
MagLess(x, y) ==
    IF Top(x) # Top(y) THEN Top(x) < Top(y)
    ELSE MagLessAt(x, y, IF x.e < y.e THEN x.e ELSE y.e)

\* the sign of x as -1, 0, 1 (not for nan)
Sgn(x) == IF IsZero(x) THEN 0 ELSE x.s

\* x < y
FLess(x, y) ==
    IF x.kind = "nan" \/ y.kind = "nan" THEN FALSE
    ELSE IF Sgn(x) # Sgn(y) THEN Sgn(x) < Sgn(y)
    ELSE IF Sgn(x) = 0 THEN FALSE
    ELSE IF x.kind = "inf" \/ y.kind = "inf"
         THEN IF x.kind = y.kind THEN FALSE
              ELSE IF x.s = 1 THEN y.kind = "inf" ELSE x.kind = "inf"
    ELSE MagLess(IF x.s = 1 THEN x ELSE y, IF x.s = 1 THEN y ELSE x)

\* x == y
FEq(x, y) ==
    IF x.kind = "nan" \/ y.kind = "nan" THEN FALSE
    ELSE IF IsZero(x) /\ IsZero(y) THEN TRUE
    ELSE x = y

\* x >= y
FGeq(x, y) == FLess(y, x) \/ FEq(x, y)

\* max(a, b) and min(a, b): b when b > a (b < a), otherwise a
PyMax(a, b) == IF FLess(a, b) THEN b ELSE a
PyMin(a, b) == IF FLess(b, a) THEN b ELSE a

\* int(f) of a finite float f: truncation toward zero
PyInt(f) ==
    IF f.m = <<>> THEN 0
    ELSE IF f.e >= 0 THEN f.s * NToInt(NShl(f.m, f.e))
    ELSE f.s * NToInt(NShr(f.m, -f.e))

\* floor(f) of a finite float f
PyFloor(f) == IF f.s = -1 /\ f.m # <<>> /\ f.e < 0 THEN PyInt(f) - 1 ELSE PyInt(f)

\* a / b of two Python 2 ints, b # 0: floor division
PyIntDiv(a, b) == a \div b

\* the float literal 2.
Two == Num(1, <<1>>, 1)

\* the floats i / 2 and i / 16
Halves(i) == FDiv(FromInt(i), Two)
Sixteenths(i) == FDiv(FromInt(i), FromInt(16))

\* 2^-600 and 2^600: their squares are outside the range of a double
Tiny == Num(1, <<1>>, -600)
Huge == Num(1, <<1>>, 600)

\* an exception, with the line that raised it
Raised(type, line) == [type |-> type, line |-> line]
NoExc == Raised("none", 0)

(***************************************************************************)
(* overlap_union, lines 22-25.  The arguments are floats.  The result is   *)
(* [exc |-> "none", val |-> SI/SU], or [exc |-> "ZeroDivisionError"] when  *)
(* SU == 0.0: a float division by zero raises.                             *)
(***************************************************************************)
\* line 23; max(0, d) is d when d > 0 and 0 otherwise
OU_SI(x1, y1, x2, y2, x3, y3, x4, y4) ==
    FMul(PyMax(FromInt(0), FSub(PyMin(x2, x4), PyMax(x1, x3))),
         PyMax(FromInt(0), FSub(PyMin(y2, y4), PyMax(y1, y3))))

\* line 24, SI the value of line 23; "+ 0.0" makes SU a float
OU_SU(x1, y1, x2, y2, x3, y3, x4, y4, SI) ==
    FAdd(FSub(FAdd(FMul(FSub(x2, x1), FSub(y2, y1)),
                   FMul(FSub(x4, x3), FSub(y4, y3))),
              SI),
         Zero(1))

\* line 25: SI / SU, a float division
OU_Ratio(SI, SU) ==
    IF IsZero(SU)
    THEN [exc |-> "ZeroDivisionError", val |-> Zero(1)]
    ELSE [exc |-> "none", val |-> FDiv(SI, SU)]

\* lines 24-25
OU_FromSI(x1, y1, x2, y2, x3, y3, x4, y4, SI) ==
    OU_Ratio(SI, OU_SU(x1, y1, x2, y2, x3, y3, x4, y4, SI))

\* lines 22-25
overlap_union(x1, y1, x2, y2, x3, y3, x4, y4) ==
    OU_FromSI(x1, y1, x2, y2, x3, y3, x4, y4, OU_SI(x1, y1, x2, y2, x3, y3, x4, y4))

(***************************************************************************)
(* get_accuracy, the grid decoder: lines 33-47.                            *)
(***************************************************************************)
\* Rect(cx, cy, width, height, confidence), the constructor call of line 47
Rect(cx, cy, w, h, conf) ==
    [cx |-> cx, cy |-> cy, width |-> w, height |-> h, confidence |-> conf]

\* the row taken from the grid's height instead of its width
CellYByHeight(kk, grid_width) == PyIntDiv(kk, net_config.grid_height)

\* line 39: y = int(k / grid_width), "/" on two ints
CellY(kk, grid_width) == PyIntDiv(kk, grid_width)

\* line 40: x = int(k % grid_width)
CellX(kk, grid_width) == kk % grid_width

\* the centre without the half cell
AbsCenterNoHalf(pix_per, idx, offset) == pix_per * idx + PyInt(offset)

\* the centre with the offset rounded down instead of truncated
AbsCenterFloorOffset(pix_per, idx, offset) ==
    PyIntDiv(pix_per, 2) + pix_per * idx + PyFloor(offset)

\* lines 43-44: pix_per/2 + pix_per*idx + int(offset), all ints
AbsCenter(pix_per, idx, offset) ==
    PyIntDiv(pix_per, 2) + pix_per * idx + PyInt(offset)

\* line 42: conf_list[n][k,1].flatten()[0], the second entry of the pair
ConfOf(confvec) == confvec[2]

\* lines 41-47 for one cell and one step: bbox = <<dx, dy, w, h>>
DecodeRect(bbox, confvec, x, y, ppw, pph) ==
    Rect(AbsCenter(ppw, x, bbox[1]), AbsCenter(pph, y, bbox[2]),
         bbox[3], bbox[4], ConfOf(confvec))

\* lines 43-44: int() of nan raises ValueError, of inf OverflowError
IntError(f) ==
    IF f.kind = "nan" THEN "ValueError"
    ELSE IF f.kind = "inf" THEN "OverflowError"
    ELSE "none"

\* line 36: grid_height rows of grid_width empty lists
EmptyGrid(grid_width, grid_height) ==
    [y \in 0 .. grid_height - 1 |-> [x \in 0 .. grid_width - 1 |-> <<>>]]

\* line 47: all_rects[y][x].append(r); an index outside the grid raises IndexError
InGrid(grid, x, y) == y \in DOMAIN grid /\ x \in DOMAIN grid[y]
AppendAt(grid, x, y, r) == [grid EXCEPT ![y][x] = Append(@, r)]

NumCells(cfg) == cfg.grid_height * cfg.grid_width
NumSteps(bl) == Cardinality(DOMAIN bl)

(***************************************************************************)
(* What forward() returns (line 28) is the output of the network, opaque   *)
(* here: a family of outputs built from a few raw box vectors and          *)
(* confidence pairs (all of them float32 values), shifted from cell to     *)
(* cell and step to step.                                                  *)
(***************************************************************************)
RawBoxes ==
    << <<FromInt(0), FromInt(0), FromInt(8), FromInt(8)>>,
       <<Halves(3), Halves(-3), Halves(5), FromInt(4)>>,
       <<Halves(-5), FromInt(2), FromInt(3), Halves(1)>>,
       <<Halves(-1), Halves(1), FromInt(2), FromInt(2)>> >>

ConfVecs ==
    << <<Sixteenths(1), Sixteenths(15)>>, <<Sixteenths(14), Sixteenths(2)>> >>

OracleBoxes(seed, steps, cells) ==
    [nn \in 0 .. steps - 1 |->
        [kk \in 0 .. cells - 1 |->
            RawBoxes[((seed + nn + kk) % Len(RawBoxes)) + 1]]]

OracleConfs(seed, steps, cells) ==
    [nn \in 0 .. steps - 1 |->
        [kk \in 0 .. cells - 1 |->
            ConfVecs[((seed + nn + kk) % Len(ConfVecs)) + 1]]]

\* the outputs of the family start at the first or the second raw vector
Seeds == 0 .. 1

Configs ==
    [img_width : 1 .. MaxImg, img_height : 1 .. MaxImg,
     grid_width : 1 .. MaxGrid, grid_height : 1 .. MaxGrid]

(***************************************************************************)
(* get_accuracy, counting the annotation (lines 29-32) and the coverage    *)
(* pass (lines 50-65).                                                     *)
(***************************************************************************)
\* a ground-truth rectangle of anno: corners x1, y1, x2, y2
AnnoRect(x1, y1, x2, y2) == [x1 |-> x1, y1 |-> y1, x2 |-> x2, y2 |-> y2]

\* a rectangle returned by stitch_rects: the fields read at lines 52-58
StitchedRect(cx, cy, w, h, tc) ==
    [cx |-> cx, cy |-> cy, width |-> w, height |-> h, true_confidence |-> tc]

\* line 52: the literal 0.9, the double nearest to 9/10
ConfThreshold == FDiv(FromInt(9), FromInt(10))

\* line 61: the literal 0.5
OverlapThreshold == Halves(1)

\* lines 30-32: count = 0.0, then count += 1 for each r in anno
CountOffByOne(a) == Len(a) + 1
CountAnno(a) == Len(a)

\* line 52: the test that skips a detection
SkippedAtThreshold(rect) == ~FLess(ConfThreshold, rect.true_confidence)
Skipped(rect) == FLess(rect.true_confidence, ConfThreshold)

\* lines 55-58: corner form <<x1, y1, x2, y2>>, "/2." is a float division
Corners(rect) ==
    <<FSub(rect.cx, FDiv(rect.width, Two)),
      FSub(rect.cy, FDiv(rect.height, Two)),
      FAdd(rect.cx, FDiv(rect.width, Two)),
      FAdd(rect.cy, FDiv(rect.height, Two))>>

\* line 60 for one ground-truth rectangle
OverlapWith(c, r) == overlap_union(c[1], c[2], c[3], c[4], r.x1, r.y1, r.x2, r.y2)

\* lines 59-63 from anno[j] on (1-based): exc is the exception overlap_union
\* raised, hit the index at which the scan broke (0: it ran to the end), inc
\* what the scan added to count_cover
RECURSIVE ScanFrom(_, _, _)
\* lines 61-63 for anno[j], o_u the outcome of line 60
ScanStep(c, a, j, o_u) ==
    IF o_u.exc # "none"
    THEN [exc |-> o_u.exc, hit |-> 0, inc |-> 0]
    ELSE IF FGeq(o_u.val, OverlapThreshold)
         THEN [exc |-> "none", hit |-> j, inc |-> 1]
         ELSE ScanFrom(c, a, j + 1)
ScanFrom(c, a, j) ==
    IF j > Len(a)
    THEN [exc |-> "none", hit |-> 0, inc |-> 0]
    ELSE ScanStep(c, a, j, OverlapWith(c, a[j]))

\* the same scan without the break of line 63
ScanNoBreakStep(j, o_u, rest) ==
    IF o_u.exc # "none"
    THEN [exc |-> o_u.exc, hit |-> 0, inc |-> 0]
    ELSE IF FGeq(o_u.val, OverlapThreshold) /\ rest.exc = "none"
         THEN [exc |-> "none", hit |-> j, inc |-> rest.inc + 1]
         ELSE rest
RECURSIVE ScanNoBreakFrom(_, _, _)
ScanNoBreakFrom(c, a, j) ==
    IF j > Len(a)
    THEN [exc |-> "none", hit |-> 0, inc |-> 0]
    ELSE ScanNoBreakStep(j, OverlapWith(c, a[j]), ScanNoBreakFrom(c, a, j + 1))
ScanNoBreak(c, a) == ScanNoBreakFrom(c, a, 1)

\* lines 59-63: the scan of anno for one detection in corner form
ScanAnno(c, a) == ScanFrom(c, a, 1)

\* lines 52-63: the body of the loop of line 51 for one detection
CoverOne(rect, a) ==
    IF Skipped(rect)
    THEN [exc |-> "none", hit |-> 0, inc |-> 0]
    ELSE ScanAnno(Corners(rect), a)

\* lines 50-65 as a function of the detections from rects[i] on: the returned
\* count_cover, or the exception that ended the call
RECURSIVE CoverFrom(_, _, _, _)
\* the rest of the pass after rects[i], one the outcome of its iteration
CoverNext(rects, a, i, cc, one) ==
    IF one.exc # "none"
    THEN [exc |-> one.exc, count_cover |-> 0]
    ELSE CoverFrom(rects, a, i + 1, cc + one.inc)
CoverFrom(rects, a, i, cc) ==
    IF i > Len(rects)
    THEN [exc |-> "none", count_cover |-> cc]
    ELSE CoverNext(rects, a, i, cc, CoverOne(rects[i], a))

CoverPass(rects, a) == CoverFrom(rects, a, 1, 0)

(***************************************************************************)
(* The annotations and the stitched detections of the model.  The overlap  *)
(* of BoxA and BoxB is exactly 1/2; BoxTiny has x1 < x2 and y1 < y2, and   *)
(* its area 2^-1200 is below the smallest positive double.  Each detection *)
(* is the centre form of one of these boxes.                               *)
(***************************************************************************)
BoxA == AnnoRect(FromInt(0), FromInt(0), FromInt(4), FromInt(4))
BoxB == AnnoRect(FromInt(0), FromInt(0), FromInt(4), FromInt(2))
BoxTiny == AnnoRect(FromInt(0), FromInt(0), Tiny, Tiny)
GTBoxes == {BoxA, BoxB, BoxTiny}

\* the detection whose corner form (lines 55-58) is the box r
Detection(r, tc) ==
    StitchedRect(FDiv(FAdd(r.x1, r.x2), Two), FDiv(FAdd(r.y1, r.y2), Two),
                 FSub(r.x2, r.x1), FSub(r.y2, r.y1), tc)
Confidences == {Halves(1), ConfThreshold, FromInt(1)}
Detections ==
    {Detection(BoxA, tc) : tc \in Confidences}
        \cup {Detection(BoxB, ConfThreshold),
              Detection(BoxTiny, Halves(1)), Detection(BoxTiny, FromInt(1))}
DetectionA == Detection(BoxA, FromInt(1))

SeqsUpTo(S, m) == UNION {[1 .. len -> S] : len \in 0 .. m}

(***************************************************************************)
(* The calls of the model.  A call of get_accuracy on the base             *)
(* configuration (one cell, one step) takes every annotation and every     *)
(* list stitch_rects may return, up to the bounds; a call on any other     *)
(* configuration takes the short ones.                                     *)
(***************************************************************************)
BaseConfig ==
    [img_width |-> MaxImg, img_height |-> MaxImg, grid_width |-> 1, grid_height |-> 1]
OnBase == net_config = BaseConfig /\ bbox_list = OracleBoxes(0, 1, 1)
AnnoLists == IF OnBase THEN SeqsUpTo(GTBoxes, MaxAnno) ELSE SeqsUpTo({BoxA}, 1)
StitchLists == IF OnBase THEN SeqsUpTo(Detections, MaxRects) ELSE SeqsUpTo({DetectionA}, 1)

(***************************************************************************)
(* Values of the variables a call does not use.                            *)
(***************************************************************************)
NoCall == [exc |-> "pending", val |-> Zero(1)]
NoConfig == [img_width |-> 0, img_height |-> 0, grid_width |-> 0, grid_height |-> 0]

OverlapIdle ==
    /\ ou_args = <<>>
    /\ ou_ret = NoCall

AccuracyIdle ==
    /\ net_config = NoConfig
    /\ bbox_list = <<>>
    /\ conf_list = <<>>
    /\ pix_per_w = 0
    /\ pix_per_h = 0
    /\ all_rects = <<>>
    /\ n = 0
    /\ k = 0
    /\ anno = <<>>
    /\ acc_rects = <<>>
    /\ count = 0
    /\ count_cover = 0
    /\ ri = 0
    /\ hits = <<>>
    /\ ret = <<>>

overlapVars == <<ou_args, ou_ret>>
inputVars == <<net_config, bbox_list, conf_list, anno>>
decodeVars == <<pix_per_w, pix_per_h, all_rects, n, k>>
coverVars == <<acc_rects, count_cover, ri, hits>>

(***************************************************************************)
(* A call of overlap_union: corners 0..MaxCoord, in units of 1, Tiny or Huge. *)
(***************************************************************************)
CoordScales == {FromInt(1), Tiny, Huge}

InitOverlap ==
    /\ pc = "ou_call"
    /\ exc = NoExc
    /\ \E c \in [1 .. 8 -> 0 .. MaxCoord], s \in CoordScales :
          ou_args = [i \in 1 .. 8 |-> FMul(FromInt(c[i]), s)]
    /\ ou_ret = NoCall
    /\ AccuracyIdle

CallOverlapUnion ==
    /\ pc = "ou_call"
    /\ ou_ret' = overlap_union(ou_args[1], ou_args[2], ou_args[3], ou_args[4],
                               ou_args[5], ou_args[6], ou_args[7], ou_args[8])
    /\ pc' = IF ou_ret'.exc = "none" THEN "ou_returned" ELSE "ou_raised"
    /\ exc' = IF ou_ret'.exc = "none" THEN NoExc ELSE Raised(ou_ret'.exc, 25)
    /\ UNCHANGED <<ou_args, inputVars, decodeVars, coverVars, count, ret>>

NextOverlap == CallOverlapUnion

SpecOverlap == InitOverlap /\ [][NextOverlap]_vars

(***************************************************************************)
(* A call of get_accuracy, from the return of forward() at line 28 to the  *)
(* return of line 65 or to the exception that ends it.                     *)
(***************************************************************************)
InitAccuracy ==
    /\ pc = "count"
    /\ exc = NoExc
    /\ net_config \in Configs
    /\ \E steps \in 1 .. MaxLen, s \in Seeds :
          /\ bbox_list = OracleBoxes(s, steps, NumCells(net_config))
          /\ conf_list = OracleConfs(s, steps, NumCells(net_config))
    /\ anno \in AnnoLists
    /\ pix_per_w = 0
    /\ pix_per_h = 0
    /\ all_rects = <<>>
    /\ n = 0
    /\ k = 0
    /\ acc_rects = <<>>
    /\ count = 0
    /\ count_cover = 0
    /\ ri = 0
    /\ hits = <<>>
    /\ ret = <<>>
    /\ OverlapIdle

\* lines 29-32
CountLoop ==
    /\ pc = "count"
    /\ count' = CountAnno(anno)
    /\ pc' = "pix"
    /\ UNCHANGED <<exc, ret, inputVars, decodeVars, coverVars, overlapVars>>

\* lines 33-34; an int division by zero raises
ComputePix ==
    /\ pc = "pix"
    /\ IF net_config.grid_width = 0 \/ net_config.grid_height = 0
       THEN /\ pc' = "raised"
            /\ exc' = Raised("ZeroDivisionError",
                             IF net_config.grid_width = 0 THEN 33 ELSE 34)
            /\ pix_per_w' = IF net_config.grid_width = 0 THEN pix_per_w
                            ELSE PyIntDiv(net_config.img_width, net_config.grid_width)
            /\ UNCHANGED pix_per_h
       ELSE /\ pix_per_w' = PyIntDiv(net_config.img_width, net_config.grid_width)
            /\ pix_per_h' = PyIntDiv(net_config.img_height, net_config.grid_height)
            /\ pc' = "alloc"
            /\ UNCHANGED exc
    /\ UNCHANGED <<all_rects, n, k, count, ret, inputVars, coverVars, overlapVars>>

\* lines 36-37: the grid, and the entry into the loops (no step, or no cell
\* on the first step: the loops have no iteration)
AllocRects ==
    /\ pc = "alloc"
    /\ all_rects' = EmptyGrid(net_config.grid_width, net_config.grid_height)
    /\ n' = 0
    /\ k' = 0
    /\ pc' = IF NumSteps(bbox_list) > 0 /\ NumCells(net_config) > 0
             THEN "decode" ELSE "stitch"
    /\ UNCHANGED <<exc, pix_per_w, pix_per_h, count, ret, inputVars, coverVars,
                   overlapVars>>

\* the exception of lines 41-47 for step n and cell k, "none" if there is none
DecodeError(x, y) ==
    IF k \notin DOMAIN bbox_list[n] THEN Raised("IndexError", 41)
    ELSE IF n \notin DOMAIN conf_list \/ k \notin DOMAIN conf_list[n]
         THEN Raised("IndexError", 42)
    ELSE IF IntError(bbox_list[n][k][1]) # "none"
         THEN Raised(IntError(bbox_list[n][k][1]), 43)
    ELSE IF IntError(bbox_list[n][k][2]) # "none"
         THEN Raised(IntError(bbox_list[n][k][2]), 44)
    ELSE IF ~InGrid(all_rects, x, y) THEN Raised("IndexError", 47)
    ELSE NoExc

\* lines 38-47: one iteration of the inner loop, and the loops' advance
DecodeCell ==
    /\ pc = "decode"
    /\ n < NumSteps(bbox_list)
    /\ k < NumCells(net_config)
    /\ LET y == CellY(k, net_config.grid_width)
           x == CellX(k, net_config.grid_width)
       IN  IF DecodeError(x, y) = NoExc
           THEN /\ all_rects' = AppendAt(all_rects, x, y,
                                   DecodeRect(bbox_list[n][k], conf_list[n][k],
                                              x, y, pix_per_w, pix_per_h))
                /\ IF k + 1 < NumCells(net_config)
                   THEN /\ k' = k + 1
                        /\ n' = n
                        /\ pc' = "decode"
                   ELSE /\ k' = 0
                        /\ n' = n + 1
                        /\ pc' = IF n + 1 < NumSteps(bbox_list) THEN "decode" ELSE "stitch"
                /\ UNCHANGED exc
           ELSE /\ pc' = "raised"
                /\ exc' = DecodeError(x, y)
                /\ UNCHANGED <<all_rects, n, k>>
    /\ UNCHANGED <<pix_per_w, pix_per_h, count, ret, inputVars, coverVars, overlapVars>>

\* lines 49-50: stitch_rects is outside this file; it may return any list
Stitch ==
    /\ pc = "stitch"
    /\ acc_rects' \in StitchLists
    /\ count_cover' = 0
    /\ ri' = 0
    /\ hits' = <<>>
    /\ pc' = "cover"
    /\ UNCHANGED <<exc, count, ret, inputVars, decodeVars, overlapVars>>

\* lines 51-63: one iteration of the loop over acc_rects
CoverRect ==
    /\ pc = "cover"
    /\ ri < Len(acc_rects)
    /\ \E one \in {CoverOne(acc_rects[ri + 1], anno)} :
           IF one.exc = "none"
           THEN /\ count_cover' = count_cover + one.inc
                /\ hits' = Append(hits, one.hit)
                /\ ri' = ri + 1
                /\ pc' = "cover"
                /\ UNCHANGED exc
           ELSE /\ pc' = "raised"
                /\ exc' = Raised(one.exc, 25)
                /\ UNCHANGED <<count_cover, hits, ri>>
    /\ UNCHANGED <<acc_rects, count, ret, inputVars, decodeVars, overlapVars>>

\* line 65
Return ==
    /\ pc = "cover"
    /\ ri = Len(acc_rects)
    /\ ret' = <<count_cover, count>>
    /\ pc' = "done"
    /\ UNCHANGED <<exc, count, inputVars, decodeVars, coverVars, overlapVars>>

NextAccuracy ==
    CountLoop \/ ComputePix \/ AllocRects \/ DecodeCell \/ Stitch \/ CoverRect \/ Return

SpecAccuracy == InitAccuracy /\ [][NextAccuracy]_vars

(***************************************************************************)
(* The two functions of the file: a behaviour is one call of either.       *)
(***************************************************************************)
Init == InitOverlap \/ InitAccuracy

Next == NextOverlap \/ NextAccuracy

Spec == Init /\ [][Next]_vars

(***************************************************************************)
(* Properties of overlap_union, checked under SpecOverlap.                 *)
(***************************************************************************)
\* both rectangles have x1 < x2, y1 < y2
ArgsNonDegenerate ==
    /\ FLess(ou_args[1], ou_args[3]) /\ FLess(ou_args[2], ou_args[4])
    /\ FLess(ou_args[5], ou_args[7]) /\ FLess(ou_args[6], ou_args[8])

\* the interiors do not meet: apart or touching, on some axis
ArgsDisjoint ==
    \/ ~FLess(ou_args[5], ou_args[3]) \/ ~FLess(ou_args[1], ou_args[7])
    \/ ~FLess(ou_args[6], ou_args[4]) \/ ~FLess(ou_args[2], ou_args[8])

ArgsUnionAreaZero ==
    IsZero(OU_SU(ou_args[1], ou_args[2], ou_args[3], ou_args[4],
                 ou_args[5], ou_args[6], ou_args[7], ou_args[8],
                 OU_SI(ou_args[1], ou_args[2], ou_args[3], ou_args[4],
                       ou_args[5], ou_args[6], ou_args[7], ou_args[8])))

\* C1: every call of overlap_union returns, without a division by zero, and
\* returns 0 whenever the union area is 0.
C1_ZeroUnionYieldsZero ==
    pc # "ou_call" =>
        /\ ou_ret.exc = "none"
        /\ ArgsUnionAreaZero => IsZero(ou_ret.val)

\* C8: for non-degenerate rectangles overlap_union returns a value, never a
\* negative one, and returns 0 when the rectangles do not intersect.
C8_DisjointYieldsZero ==
    (pc # "ou_call" /\ ArgsNonDegenerate) =>
        /\ ou_ret.exc = "none"
        /\ ~FLess(ou_ret.val, FromInt(0))
        /\ ArgsDisjoint => IsZero(ou_ret.val)

(***************************************************************************)
(* Properties of the decoding loop of get_accuracy, checked under          *)
(* SpecAccuracy where the loop has ended: at line 49.                      *)
(***************************************************************************)
GridXs == 0 .. net_config.grid_width - 1
GridYs == 0 .. net_config.grid_height - 1
StepNos == 1 .. NumSteps(bbox_list)

\* the oracle's flat index of cell (x, y), row-major
FlatIndex(x, y) == y * net_config.grid_width + x
RawBoxAt(x, y, s) == bbox_list[s - 1][FlatIndex(x, y)]
RawConfAt(x, y, s) == conf_list[s - 1][FlatIndex(x, y)]

\* c = img/grid * (idx + 0.5), the geometric centre of cell idx on one axis
AtGeoCentre(c, img, grid, idx) == c * (2 * grid) = img * (2 * idx + 1)

ZeroOffset(b) == IsZero(b[1]) /\ IsZero(b[2])

\* C5 as stated: a proposal with zero offsets is decoded to the geometric
\* centre of its cell, whatever the image and grid dimensions.
C5_ZeroOffsetAtGeometricCentre ==
    pc = "stitch" =>
        \A y \in GridYs, x \in GridXs, s \in StepNos :
            ZeroOffset(RawBoxAt(x, y, s)) =>
                /\ AtGeoCentre(all_rects[y][x][s].cx, net_config.img_width,
                               net_config.grid_width, x)
                /\ AtGeoCentre(all_rects[y][x][s].cy, net_config.img_height,
                               net_config.grid_height, y)

\* on one axis: the decoded centre of a zero-offset proposal is
\* (img div grid) div 2 + (img div grid) * idx, which is the geometric centre
\* exactly when img is a multiple of grid and img div grid is even
FlooredCentre(c, img, grid, idx) ==
    /\ c = ((img \div grid) \div 2) + (img \div grid) * idx
    /\ AtGeoCentre(c, img, grid, idx)
         <=> (img % grid = 0 /\ (img \div grid) % 2 = 0)

\* C5 amended: a proposal with zero offsets is decoded to the integer
\* (p div 2 + p*x, q div 2 + q*y) with p = img_width div grid_width and
\* q = img_height div grid_height; on each axis this is the geometric centre
\* exactly when the image dimension is a multiple of the grid dimension and the
\* quotient is even.
C5_ZeroOffsetAtFlooredCentre ==
    pc = "stitch" =>
        \A y \in GridYs, x \in GridXs, s \in StepNos :
            ZeroOffset(RawBoxAt(x, y, s)) =>
                /\ FlooredCentre(all_rects[y][x][s].cx, net_config.img_width,
                                 net_config.grid_width, x)
                /\ FlooredCentre(all_rects[y][x][s].cy, net_config.img_height,
                                 net_config.grid_height, y)

\* C5 witness: a zero-offset proposal decoded on a grid whose cells are an odd
\* number of pixels wide and whose rows do not divide the image height
C5_Witness ==
    /\ pc = "stitch"
    /\ pix_per_w % 2 = 1
    /\ net_config.img_height % net_config.grid_height # 0
    /\ \E y \in GridYs, x \in GridXs, s \in StepNos :
          /\ ZeroOffset(RawBoxAt(x, y, s))
          /\ all_rects[y][x][s].cx = (pix_per_w \div 2) + pix_per_w * x
          /\ x > 0

\* C6 as stated: the centre is pix/2 + pix*idx + offset with the offset added
\* as given, fractional or negative (pix/2 taken as line 43 evaluates it, the
\* half cell being the matter of C5), width, height and the index-1 confidence
\* passed through.
C6_OffsetsAddedAsGiven ==
    pc = "stitch" =>
        \A y \in GridYs, x \in GridXs, s \in StepNos :
            LET r == all_rects[y][x][s]
                b == RawBoxAt(x, y, s)
            IN  /\ FEq(FromInt(r.cx),
                       FAdd(FromInt((pix_per_w \div 2) + pix_per_w * x), b[1]))
                /\ FEq(FromInt(r.cy),
                       FAdd(FromInt((pix_per_h \div 2) + pix_per_h * y), b[2]))
                /\ r.width = b[3]
                /\ r.height = b[4]
                /\ r.confidence = RawConfAt(x, y, s)[2]

\* C6 amended: the centre is the integer pix div 2 + pix*idx + int(offset),
\* int() dropping the fractional part of the offset toward zero; width, height
\* and the index-1 confidence are passed through.
C6_OffsetsTruncated ==
    pc = "stitch" =>
        \A y \in GridYs, x \in GridXs, s \in StepNos :
            LET r == all_rects[y][x][s]
                b == RawBoxAt(x, y, s)
            IN  /\ r.cx = (pix_per_w \div 2) + pix_per_w * x + PyInt(b[1])
                /\ r.cy = (pix_per_h \div 2) + pix_per_h * y + PyInt(b[2])
                /\ r.width = b[3]
                /\ r.height = b[4]
                /\ r.confidence = RawConfAt(x, y, s)[2]

\* C6 witness: a proposal with offsets 3/2 and -3/2, decoded with 1 and -1
C6_Witness ==
    /\ pc = "stitch"
    /\ \E y \in GridYs, x \in GridXs, s \in StepNos :
          /\ RawBoxAt(x, y, s)[1] = Halves(3)
          /\ RawBoxAt(x, y, s)[2] = Halves(-3)
          /\ all_rects[y][x][s].cx = (pix_per_w \div 2) + pix_per_w * x + 1
          /\ all_rects[y][x][s].cy = (pix_per_h \div 2) + pix_per_h * y - 1

RECURSIVE SumLens(_, _)
SumLens(grid, cells) ==
    IF cells = {} THEN 0
    ELSE LET c == CHOOSE c \in cells : TRUE
         IN  Len(grid[c[1]][c[2]]) + SumLens(grid, cells \ {c})

\* C9: the decoding loop raises nothing; the flat index k goes row-major to
\* (k div grid_width, k mod grid_width), inside the grid and one-to-one; after
\* the loop every cell holds one rectangle per step, in step order, the one
\* decoded from that cell's own proposal, max_len*grid_width*grid_height in all.
C9_OneRectPerCellAndStep ==
    /\ pc = "raised" => exc.line \notin 33 .. 47
    /\ pc = "stitch" =>
        /\ \A kk \in 0 .. NumCells(net_config) - 1 :
              /\ CellY(kk, net_config.grid_width) = kk \div net_config.grid_width
              /\ CellX(kk, net_config.grid_width) = kk % net_config.grid_width
              /\ CellY(kk, net_config.grid_width) \in GridYs
              /\ CellX(kk, net_config.grid_width) \in GridXs
        /\ \A k1, k2 \in 0 .. NumCells(net_config) - 1 :
              (/\ CellY(k1, net_config.grid_width) = CellY(k2, net_config.grid_width)
               /\ CellX(k1, net_config.grid_width) = CellX(k2, net_config.grid_width))
                  => k1 = k2
        /\ DOMAIN all_rects = GridYs
        /\ \A y \in GridYs :
              /\ DOMAIN all_rects[y] = GridXs
              /\ \A x \in GridXs :
                    /\ Len(all_rects[y][x]) = NumSteps(bbox_list)
                    /\ \A s \in StepNos :
                          /\ all_rects[y][x][s].width = RawBoxAt(x, y, s)[3]
                          /\ all_rects[y][x][s].height = RawBoxAt(x, y, s)[4]
                          /\ all_rects[y][x][s].confidence = RawConfAt(x, y, s)[2]
        /\ SumLens(all_rects, GridYs \X GridXs)
             = NumSteps(bbox_list) * net_config.grid_width * net_config.grid_height

\* C9 witness: a grid of more than one row and column decoded over two steps
C9_Witness ==
    /\ pc = "stitch"
    /\ net_config.grid_width = 2
    /\ net_config.grid_height = 2
    /\ NumSteps(bbox_list) = 2
    /\ Len(all_rects[1][1]) = 2

(***************************************************************************)
(* Properties of the coverage pass of get_accuracy, checked under          *)
(* SpecAccuracy.                                                           *)
(***************************************************************************)
AboveThreshold(rect) == FGeq(rect.true_confidence, ConfThreshold)

\* the corner form cx -+ width/2, cy -+ height/2 of rect is the box r
Coincides(rect, r) ==
    /\ FEq(Corners(rect)[1], r.x1) /\ FEq(Corners(rect)[2], r.y1)
    /\ FEq(Corners(rect)[3], r.x2) /\ FEq(Corners(rect)[4], r.y2)

NonDegenerate(r) == FLess(r.x1, r.x2) /\ FLess(r.y1, r.y2)

\* overlap_union of the detection and the box is at least 0.5
CoversBox(rect, r) ==
    LET o_u == OverlapWith(Corners(rect), r)
    IN  o_u.exc = "none" /\ FGeq(o_u.val, OverlapThreshold)

\* the detections, among the first m, that scored an increment at box j
CoveredBy(j, m) == {i \in 1 .. m : hits[i] = j}

\* C2: no ground-truth box is responsible for more than one increment of
\* count_cover.
C2_BoxCoveredAtMostOnce ==
    \A j \in 1 .. Len(anno) : Cardinality(CoveredBy(j, Len(hits))) <= 1

\* the detections that pass the test of line 52
Kept(rects) == SelectSeq(rects, AboveThreshold)

\* the call was ended by the division of line 25
RaisedInCover == pc = "raised" /\ exc.line = 25

\* C3: the outcome of the call is the outcome on the detections at or above
\* 0.9 alone; one box and one identical detection of confidence 0.5 give
\* (0, 1); a detection of confidence exactly 0.9 is scanned like any other.
C3_BelowThresholdIgnored ==
    /\ pc = "done" =>
          /\ CoverPass(Kept(acc_rects), anno).exc = "none"
          /\ ret = <<CoverPass(Kept(acc_rects), anno).count_cover, Len(anno)>>
    /\ RaisedInCover => CoverPass(Kept(acc_rects), anno).exc # "none"
    /\ (/\ pc = "done" /\ Len(anno) = 1 /\ Len(acc_rects) = 1
        /\ acc_rects[1].true_confidence = Halves(1)) => ret = <<0, 1>>
    /\ \A i \in 1 .. Len(hits) :
          acc_rects[i].true_confidence = ConfThreshold =>
              hits[i] = ScanAnno(Corners(acc_rects[i]), anno).hit

\* C3 witness: one box, an identical detection of confidence 0.5 and an
\* identical one of confidence 0.9: the call returned (1, 1)
C3_Witness ==
    /\ pc = "done"
    /\ Len(anno) = 1
    /\ Len(acc_rects) = 2
    /\ Coincides(acc_rects[1], anno[1]) /\ Coincides(acc_rects[2], anno[1])
    /\ NonDegenerate(anno[1])
    /\ acc_rects[1].true_confidence = Halves(1)
    /\ acc_rects[2].true_confidence = ConfThreshold
    /\ ret = <<1, 1>>

\* C4: with no ground-truth box the call raises nothing and returns (0, 0),
\* whatever the detections; the second component of every result is the number
\* of ground-truth rectangles.
C4_EmptyGroundTruth ==
    /\ Len(anno) = 0 => pc # "raised"
    /\ (pc = "done" /\ Len(anno) = 0) => ret = <<0, 0>>
    /\ pc = "done" => ret[2] = Len(anno)

\* C4 witness: no ground truth, a detection of confidence 1, (0, 0) returned
C4_Witness ==
    /\ pc = "done"
    /\ Len(anno) = 0
    /\ \E i \in 1 .. Len(acc_rects) : acc_rects[i].true_confidence = FromInt(1)
    /\ ret = <<0, 0>>

OneCoincidingPair ==
    /\ Len(anno) = 1
    /\ Len(acc_rects) = 1
    /\ NonDegenerate(anno[1])
    /\ Coincides(acc_rects[1], anno[1])
    /\ acc_rects[1].true_confidence = FromInt(1)

\* C7: one non-degenerate ground-truth box and one detection of confidence 1.0
\* whose corner form is that box: the call returns (1, 1).
C7_CoincidingDetection ==
    (pc \in {"cover", "done", "raised"} /\ OneCoincidingPair) =>
        /\ pc # "raised"
        /\ pc = "done" => ret = <<1, 1>>

\* the detections, among the first m, at or above 0.9
Confident(m) == {i \in 1 .. m : AboveThreshold(acc_rects[i])}

\* those of them with a ground-truth box of overlap at least 0.5
Covering(m) ==
    {i \in Confident(m) : \E j \in 1 .. Len(anno) : CoversBox(acc_rects[i], anno[j])}

\* C10: count_cover is the number of detections at or above 0.9, so far
\* consumed, that have a ground-truth box of overlap at least 0.5, each
\* counted once, hence at most the number of detections at or above 0.9; the
\* returned coveredCount is that number over all detections.
C10_CountsCoveringDetections ==
    /\ pc = "cover" =>
          /\ count_cover = Cardinality(Covering(ri))
          /\ count_cover <= Cardinality(Confident(ri))
          /\ Len(hits) = ri
    /\ pc = "done" =>
          /\ ret[1] = Cardinality(Covering(Len(acc_rects)))
          /\ ret[1] <= Cardinality(Confident(Len(acc_rects)))

\* C10 witness: a returned call in which one detection covers two boxes and is
\* counted once
C10_Witness ==
    /\ pc = "done"
    /\ Len(anno) = 2
    /\ \E i \in 1 .. Len(acc_rects) :
          /\ AboveThreshold(acc_rects[i])
          /\ CoversBox(acc_rects[i], anno[1])
          /\ CoversBox(acc_rects[i], anno[2])
    /\ ret[1] = Cardinality(Confident(Len(acc_rects)))
    /\ ret[1] >= 1
====
